---------------------------- MODULE Spec2Model ----------------------------
(***************************************************************************)
(* A model of gerar_csv.py: the annotation parser (read_annotations), the  *)
(* frame labeller (is_frame_in_annotation), the keypoint normaliser        *)
(* (detect_keypoints), the per-video pipeline (process_video) and the      *)
(* corpus driver (main).                                                   *)
(*                                                                         *)
(* Text is a sequence of one-character strings, so that str.strip,         *)
(* str.split, int and os.path.splitext are computed as Python computes     *)
(* them.  The external collaborators (the annotation file, the frame       *)
(* source, the pose model, the csv writer) are nondeterministic inputs.    *)
(***************************************************************************)
EXTENDS Integers, Sequences, FiniteSets, TLC

VARIABLES
    pc,           \* where the program is: see Init
    exc,          \* the exception that ended the run, "none" while there is none
    line,         \* read_annotations: the line the file iterator yielded last
    annotations,  \* the dict of read_annotations, in insertion order
    idx,          \* main: the position in annotations.items() being processed
    capOpen,      \* process_video: the VideoCapture holds an open source
    csvOpen,      \* process_video: the csv file object is open
    frame_count,  \* process_video: frames decoded so far
    results,      \* detect_keypoints: what pose_model answered for the frame
    detections,   \* process_video: what detect_keypoints returned for the frame
    files,        \* the output directory: path -> the rows of the table
    log           \* what was printed, in order

vars == <<pc, exc, line, annotations, idx, capOpen, csvOpen, frame_count,
          results, detections, files, log>>

----------------------------------------------------------------------------
(* Text helpers *)

Whitespace == {" ", "\t", "\n"}

Digits == {"0", "1", "2", "3", "4", "5", "6", "7", "8", "9"}

DigitVal(c) ==
    CASE c = "0" -> 0 [] c = "1" -> 1 [] c = "2" -> 2 [] c = "3" -> 3
      [] c = "4" -> 4 [] c = "5" -> 5 [] c = "6" -> 6 [] c = "7" -> 7
      [] c = "8" -> 8 [] c = "9" -> 9

\* " ".join(toks)
RECURSIVE JoinSp(_)
JoinSp(toks) ==
    IF toks = <<>> THEN <<>>
    ELSE IF Len(toks) = 1 THEN toks[1]
    ELSE toks[1] \o <<" ">> \o JoinSp(Tail(toks))

\* str.strip(): leading and trailing whitespace removed
RECURSIVE LStrip(_)
LStrip(s) ==
    IF s # <<>> /\ s[1] \in Whitespace THEN LStrip(Tail(s)) ELSE s

RECURSIVE RStrip(_)
RStrip(s) ==
    IF s # <<>> /\ s[Len(s)] \in Whitespace
    THEN RStrip(SubSeq(s, 1, Len(s) - 1)) ELSE s

Strip(s) == RStrip(LStrip(s))

\* str.split() with no separator: the maximal runs of non-whitespace
RECURSIVE SplitFrom(_, _, _, _)
SplitFrom(s, i, cur, acc) ==
    IF i > Len(s)
    THEN IF cur = <<>> THEN acc ELSE Append(acc, cur)
    ELSE IF s[i] \in Whitespace
         THEN SplitFrom(s, i + 1, <<>>, IF cur = <<>> THEN acc ELSE Append(acc, cur))
         ELSE SplitFrom(s, i + 1, Append(cur, s[i]), acc)

Split(s) == SplitFrom(s, 1, <<>>, <<>>)

\* int(tok) on a token without whitespace: an optional sign, then digits,
\* single underscores allowed between digits; anything else is a ValueError.
ValueErr == [ok |-> FALSE, val |-> 0]

RECURSIVE DigitsValue(_, _)
DigitsValue(s, acc) ==
    IF s = <<>> THEN acc
    ELSE IF s[1] = "_" THEN DigitsValue(Tail(s), acc)
    ELSE DigitsValue(Tail(s), 10 * acc + DigitVal(s[1]))

ParseInt(tok) ==
    LET signed == tok # <<>> /\ tok[1] \in {"+", "-"}
        body   == IF signed THEN Tail(tok) ELSE tok
        wellFormed ==
            /\ body # <<>>
            /\ body[1] \in Digits
            /\ body[Len(body)] \in Digits
            /\ \A i \in 1..Len(body) : body[i] \in Digits \cup {"_"}
            /\ \A i \in 1..(Len(body) - 1) : ~(body[i] = "_" /\ body[i + 1] = "_")
        mag == DigitsValue(body, 0)
    IN  IF ~wellFormed THEN ValueErr
        ELSE [ok |-> TRUE, val |-> IF signed /\ tok[1] = "-" THEN 0 - mag ELSE mag]

----------------------------------------------------------------------------
(* read_annotations *)

\* A dict as a sequence of [key, val] in insertion order.
DictKeys(d) == {d[i].key : i \in 1..Len(d)}

DictGet(d, k) == d[CHOOSE i \in 1..Len(d) : d[i].key = k].val

\* d[k] = v: a new key goes last, an existing key keeps its place.
DictSet(d, k, v) ==
    IF k \in DictKeys(d)
    THEN [i \in 1..Len(d) |-> IF d[i].key = k THEN [key |-> k, val |-> v] ELSE d[i]]
    ELSE Append(d, [key |-> k, val |-> v])

\* Lines 41-45: which of the two pairs become intervals.
Intervals_or(start1, end1, start2, end2) ==
    (IF start1 # -1 \/ end1 # -1 THEN <<<<start1, end1>>>> ELSE <<>>)
    \o (IF start2 # -1 \/ end2 # -1 THEN <<<<start2, end2>>>> ELSE <<>>)

Intervals(start1, end1, start2, end2) ==
    (IF start1 # -1 /\ end1 # -1 THEN <<<<start1, end1>>>> ELSE <<>>)
    \o (IF start2 # -1 /\ end2 # -1 THEN <<<<start2, end2>>>> ELSE <<>>)

\* One iteration of the loop body on a non-blank line, lines 33-50: the
\* outcome is the exception raised or the entry stored.
ParseLine(stripped) ==
    LET parts == Split(stripped)
        n     == Len(parts)
    IN  IF n < 6 THEN [raised |-> "IndexError"]
        ELSE LET s1 == ParseInt(parts[3])
                 e1 == ParseInt(parts[4])
                 s2 == ParseInt(parts[5])
                 e2 == ParseInt(parts[6])
             IN  IF ~(s1.ok /\ e1.ok /\ s2.ok /\ e2.ok)
                 THEN [raised |-> "ValueError"]
                 ELSE [raised |-> "none",
                       video_name |-> parts[1],
                       info |-> [event |-> parts[2],
                                 intervals |-> Intervals(s1.val, e1.val, s2.val, e2.val)]]

\* The file iterator yields l: one pass of the for loop of lines 29-50.
ReadLineFrom(L) ==
    /\ pc = "reading"
    /\ \E l \in L :
        /\ line' = l
        /\ IF Strip(l) = <<>>
           THEN UNCHANGED <<pc, exc, annotations>>
           ELSE LET r == ParseLine(Strip(l))
                IN  IF r.raised # "none"
                    THEN /\ pc' = "crashed"
                         /\ exc' = r.raised
                         /\ UNCHANGED annotations
                    ELSE /\ annotations' = DictSet(annotations, r.video_name, r.info)
                         /\ UNCHANGED <<pc, exc>>
    /\ UNCHANGED <<idx, capOpen, csvOpen, frame_count, results, detections, files, log>>

\* The file is exhausted: read_annotations returns and main enters its loop.
EndOfFile ==
    /\ pc = "reading"
    /\ pc' = "main_loop"
    /\ line' = <<>>
    /\ idx' = 1
    /\ UNCHANGED <<exc, annotations, capOpen, csvOpen, frame_count, results,
                   detections, files, log>>

----------------------------------------------------------------------------
(* is_frame_in_annotation *)

\* Lines 59-62 with a strict upper bound: the last frame of an interval is lost.
RECURSIVE is_frame_in_annotation_strict(_, _)
is_frame_in_annotation_strict(frame_number, intervals) ==
    IF intervals = <<>> THEN 0
    ELSE IF intervals[1][1] <= frame_number /\ frame_number < intervals[1][2] THEN 1
    ELSE is_frame_in_annotation_strict(frame_number, Tail(intervals))

\* The linear scan of lines 59-62: the first interval that holds the frame decides.
RECURSIVE is_frame_in_annotation(_, _)
is_frame_in_annotation(frame_number, intervals) ==
    IF intervals = <<>> THEN 0
    ELSE IF intervals[1][1] <= frame_number /\ frame_number <= intervals[1][2] THEN 1
    ELSE is_frame_in_annotation(frame_number, Tail(intervals))

FIGHTING == <<"F", "i", "g", "h", "t", "i", "n", "g">>

\* Lines 140-143 of process_video.
FrameLabel(event_name, frame_number, intervals) ==
    IF event_name = FIGHTING
    THEN is_frame_in_annotation(frame_number, intervals)
    ELSE 0

----------------------------------------------------------------------------
(* detect_keypoints *)

NumKeypoints == 17

VecLen == 34

Zeros(n) == [i \in 1..n |-> 0]

\* What pose_model answers for a frame.  results is a list (empty, or with one
\* Results object); its keypoints attribute is None or a list of persons; a
\* person's xy array has ndim 3, shape (1, n, 2), or ndim 2, shape (n, 2).
PoseModelRaises == [raised |-> TRUE, nresults |-> 0, hasKeypoints |-> FALSE, persons |-> <<>>]

NoResults == [raised |-> FALSE, nresults |-> 0, hasKeypoints |-> FALSE, persons |-> <<>>]

KeypointsNone == [raised |-> FALSE, nresults |-> 1, hasKeypoints |-> FALSE, persons |-> <<>>]

Keypoints(ps) == [raised |-> FALSE, nresults |-> 1, hasKeypoints |-> TRUE, persons |-> ps]

RECURSIVE Flatten(_)
Flatten(pts) ==
    IF pts = <<>> THEN <<>> ELSE <<pts[1][1], pts[1][2]>> \o Flatten(Tail(pts))

\* Lines 85-98 for one person: the coordinates, or the IndexError of point[0]
\* on a scalar when the array left after the squeeze of lines 88-89 has one
\* dimension only.
PersonCoords(person) ==
    LET shape0    == IF person.ndim = 3 THEN 1 ELSE Len(person.pts)
        ndimAfter == IF shape0 = 1 THEN person.ndim - 1 ELSE person.ndim
        coords    == Flatten(person.pts)
    IN  IF ndimAfter = 1
        THEN [raised |-> TRUE, coords |-> <<>>]
        ELSE [raised |-> FALSE,
              coords |-> IF Len(coords) < VecLen
                         THEN coords \o Zeros(VecLen - Len(coords))
                         ELSE coords]

\* Lines 100-102 returning the empty list when nobody was detected.
Fallback_empty(all_detections) == all_detections

\* Lines 100-102: one all-zero detection when nobody was detected.
Fallback(all_detections) ==
    IF all_detections = <<>> THEN <<Zeros(VecLen)>> ELSE all_detections

\* Lines 78-104, given the answer r of pose_model.
detect_keypoints(r) ==
    LET ps == IF r.nresults > 0 /\ r.hasKeypoints /\ Len(r.persons) > 0
              THEN r.persons ELSE <<>>
        each == [i \in 1..Len(ps) |-> PersonCoords(ps[i])]
    IN  IF \E i \in 1..Len(ps) : each[i].raised
        THEN [raised |-> TRUE, value |-> <<>>]
        ELSE [raised |-> FALSE,
              value |-> Fallback([i \in 1..Len(ps) |-> each[i].coords])]

----------------------------------------------------------------------------
(* Paths *)

RFind(s, c) ==
    IF \E i \in 1..Len(s) : s[i] = c
    THEN CHOOSE i \in 1..Len(s) : s[i] = c /\ \A j \in (i + 1)..Len(s) : s[j] # c
    ELSE 0

\* os.path.splitext(p)[0]: p up to its last dot, unless that dot is before
\* the last separator or only dots precede it in the file name.
SplitextRoot(p) ==
    LET sep == RFind(p, "/")
        dot == RFind(p, ".")
    IN  IF dot > sep /\ \E i \in (sep + 1)..(dot - 1) : p[i] # "."
        THEN SubSeq(p, 1, dot - 1)
        ELSE p

\* os.path.join(a, b)
PathJoin(a, b) ==
    IF b # <<>> /\ b[1] = "/" THEN b
    ELSE IF a = <<>> \/ a[Len(a)] = "/" THEN a \o b
    ELSE a \o <<"/">> \o b

DatasetDir == <<"d", "a", "t", "a", "s", "e", "t">>

CsvOutputDir == <<"c", "s", "v">>

\* Line 170
VideoPath(video_name) == PathJoin(DatasetDir, video_name)

\* Line 171 keeping the whole video name in the file name.
OutputCsvPath_fullname(video_name) ==
    PathJoin(CsvOutputDir, video_name \o <<".", "c", "s", "v">>)

\* Line 171
OutputCsvPath(video_name) ==
    PathJoin(CsvOutputDir, SplitextRoot(video_name) \o <<".", "c", "s", "v">>)

----------------------------------------------------------------------------
(* process_video and main *)

\* Lines 122-126: frame, person_id, x1, y1, ..., x17, y17, label.
RECURSIVE XYColumns(_)
XYColumns(i) ==
    IF i > NumKeypoints THEN <<>>
    ELSE <<<<"x", i>>, <<"y", i>>>> \o XYColumns(i + 1)

Header == <<<<"frame">>, <<"person_id">>>> \o XYColumns(1) \o <<<<"label">>>>

\* Line 147
Row(frame, person_id, keypoints, label) ==
    <<frame, person_id>> \o keypoints \o <<label>>

\* Lines 146-148 numbering the persons from 1.
FrameRows_from1(frame, dets, label) ==
    [i \in 1..Len(dets) |-> Row(frame, i, dets[i], label)]

\* Lines 146-148: enumerate(detections) numbers the persons from 0.
FrameRows(frame, dets, label) ==
    [i \in 1..Len(dets) |-> Row(frame, i - 1, dets[i], label)]

NoDetections == <<>>

Printed(kind, video, out, frames) ==
    [kind |-> kind, video |-> video, out |-> out, frames |-> frames]

CurName == annotations[idx].key

CurInfo == annotations[idx].val

\* open(path, 'w'): the file is created, or truncated when it exists.
Truncated(fs, path) == (path :> <<>>) @@ fs

Written(fs, path, rows) == (path :> (fs[path] \o rows)) @@ fs

\* Lines 166-173 and 112-115 where the failure to open ends the run.
OpenFailed_abort ==
    /\ pc = "main_loop"
    /\ idx <= Len(annotations)
    /\ log' = log \o <<Printed("START", CurName, <<>>, 0),
                       Printed("ERROR", VideoPath(CurName), <<>>, 0)>>
    /\ pc' = "crashed"
    /\ exc' = "SourceUnavailable"
    /\ UNCHANGED <<line, annotations, idx, capOpen, csvOpen, frame_count,
                   results, detections, files>>

\* Lines 166-173 and 112-115: the next entry's source does not open;
\* process_video prints the error and returns, main goes on.
OpenFailed ==
    /\ pc = "main_loop"
    /\ idx <= Len(annotations)
    /\ log' = log \o <<Printed("START", CurName, <<>>, 0),
                       Printed("ERROR", VideoPath(CurName), <<>>, 0)>>
    /\ idx' = idx + 1
    /\ UNCHANGED <<pc, exc, line, annotations, capOpen, csvOpen, frame_count,
                   results, detections, files>>

\* Lines 166-173 and 112-127: the source opens, the table is created (or
\* truncated) and the header written.
OpenVideo ==
    /\ pc = "main_loop"
    /\ idx <= Len(annotations)
    /\ log' = Append(log, Printed("START", CurName, <<>>, 0))
    /\ capOpen' = TRUE
    /\ frame_count' = 0
    /\ csvOpen' = TRUE
    /\ files' = Written(Truncated(files, OutputCsvPath(CurName)),
                        OutputCsvPath(CurName), <<Header>>)
    /\ results' = NoResults
    /\ detections' = NoDetections
    /\ pc' = "in_video"
    /\ UNCHANGED <<exc, line, annotations, idx>>

\* Lines 112-118: the source opens but open(output_csv_path, 'w') raises.
CsvOpenRaises ==
    /\ pc = "main_loop"
    /\ idx <= Len(annotations)
    /\ log' = Append(log, Printed("START", CurName, <<>>, 0))
    /\ capOpen' = TRUE
    /\ frame_count' = 0
    /\ pc' = "crashed"
    /\ exc' = "OSError"
    /\ UNCHANGED <<line, annotations, idx, csvOpen, results, detections, files>>

\* An exception leaves the with block of line 118 (the file is closed) and
\* process_video and main, which catch nothing; line 150 is not reached.
Propagate(e) ==
    /\ pc' = "crashed"
    /\ exc' = e
    /\ csvOpen' = FALSE
    /\ UNCHANGED capOpen

\* One pass of the loop of lines 130-148 on a decoded frame for which
\* pose_model answers r.
FrameStep(r) ==
    LET d     == detect_keypoints(r)
        label == FrameLabel(CurInfo.event, frame_count + 1, CurInfo.intervals)
    IN  /\ frame_count' = frame_count + 1
        /\ results' = r
        /\ IF d.raised
           THEN /\ Propagate("IndexError")
                /\ UNCHANGED <<detections, files>>
           ELSE /\ detections' = d.value
                /\ files' = Written(files, OutputCsvPath(CurName),
                                    FrameRows(frame_count + 1, d.value, label))
                /\ UNCHANGED <<pc, exc, capOpen, csvOpen>>
        /\ UNCHANGED <<line, annotations, idx, log>>

\* Lines 131-137 where the failure of pose_model is caught and the frame skipped.
DetectorRaisesStep_skip ==
    /\ frame_count' = frame_count + 1
    /\ results' = PoseModelRaises
    /\ UNCHANGED <<pc, exc, capOpen, csvOpen, detections, files,
                   line, annotations, idx, log>>

\* Lines 131-137: pose_model raises on the frame.
DetectorRaisesStep ==
    /\ frame_count' = frame_count + 1
    /\ results' = PoseModelRaises
    /\ Propagate("DetectorFailure")
    /\ UNCHANGED <<detections, files, line, annotations, idx, log>>

\* Lines 131-148: writer.writerow raises on the row of person j of the frame.
WriterRaisesStep(r, j) ==
    LET d     == detect_keypoints(r)
        label == FrameLabel(CurInfo.event, frame_count + 1, CurInfo.intervals)
    IN  /\ ~d.raised
        /\ j <= Len(d.value)
        /\ frame_count' = frame_count + 1
        /\ results' = r
        /\ detections' = d.value
        /\ files' = Written(files, OutputCsvPath(CurName),
                            SubSeq(FrameRows(frame_count + 1, d.value, label), 1, j - 1))
        /\ Propagate("OSError")
        /\ UNCHANGED <<line, annotations, idx, log>>

\* Lines 131-133 and 150-151: the source is exhausted; the table is closed,
\* the source released and the success printed; main takes the next entry
\* (the locals of process_video are gone).
EndVideo ==
    /\ pc = "in_video"
    /\ csvOpen' = FALSE
    /\ capOpen' = FALSE
    /\ log' = Append(log, Printed("INFO", VideoPath(CurName),
                                  OutputCsvPath(CurName), frame_count))
    /\ idx' = idx + 1
    /\ pc' = "main_loop"
    /\ frame_count' = 0
    /\ results' = NoResults
    /\ detections' = NoDetections
    /\ UNCHANGED <<exc, line, annotations, files>>

\* Line 166: annotations.items() is exhausted, main returns.
MainDone ==
    /\ pc = "main_loop"
    /\ idx > Len(annotations)
    /\ pc' = "done"
    /\ UNCHANGED <<exc, line, annotations, idx, capOpen, csvOpen, frame_count,
                   results, detections, files, log>>

----------------------------------------------------------------------------
(* Inputs *)

MaxFrames == 3

MaxPersons == 2

MaxPoints == 18

NameA_mp4 == <<"a", ".", "m", "p", "4">>

NameA_avi == <<"a", ".", "a", "v", "i">>

NameB_mp4 == <<"b", ".", "m", "p", "4">>

NORMAL == <<"N", "o", "r", "m", "a", "l">>

LOWER_FIGHTING == <<"f", "i", "g", "h", "t", "i", "n", "g">>

Minus1 == <<"-", "1">>

\* A line as the file iterator yields it: the tokens and the line break.
TextLine(toks) == JoinSp(toks) \o <<"\n">>

\* The annotation lines of the corpus runs.
CorpusLines ==
    { TextLine(<<NameA_mp4, FIGHTING, Minus1, Minus1, <<"2">>, <<"2">>>>),
      TextLine(<<NameA_avi, NORMAL, <<"1">>, <<"2">>, Minus1, Minus1>>),
      TextLine(<<NameB_mp4, FIGHTING, <<"1">>, <<"1">>, <<"3">>, <<"3">>>>),
      TextLine(<<NameB_mp4, FIGHTING, Minus1, Minus1, Minus1, Minus1>>),
      TextLine(<<NameB_mp4, LOWER_FIGHTING, <<"1">>, <<"3">>, Minus1, Minus1>>),
      TextLine(<<NameB_mp4, FIGHTING, <<"1">>, <<"2">>, Minus1>>),
      <<"\n">> }

\* The annotation lines of the parser runs: every choice of the four interval
\* fields, with five, six and seven tokens, and lines of whitespace.
ParseNames == {NameA_mp4, NameB_mp4}

Start1Tokens == {Minus1, <<"3">>, <<"+", "7">>, <<"x">>}

End1Tokens == {Minus1, <<"1">>, <<"1", ".", "5">>}

Start2Tokens == {Minus1, <<"1", "0">>, <<"-">>}

End2Tokens == {Minus1, <<"2", "0">>, <<"2", "x">>}

ExtraToken == <<"9">>

SixTokenLines ==
    { TextLine(<<n, FIGHTING, a, b, c, d>>) :
        n \in ParseNames, a \in Start1Tokens, b \in End1Tokens,
        c \in Start2Tokens, d \in End2Tokens }

FiveTokenLines ==
    { TextLine(<<n, FIGHTING, a, b, c>>) :
        n \in ParseNames, a \in Start1Tokens, b \in End1Tokens, c \in Start2Tokens }

SevenTokenLines ==
    { TextLine(<<n, FIGHTING, a, b, c, d, ExtraToken>>) :
        n \in ParseNames, a \in {Minus1, <<"3">>}, b \in {Minus1, <<"1">>},
        c \in {Minus1, <<"1", "0">>, <<"-">>}, d \in {Minus1, <<"2", "0">>} }

OtherLines ==
    { <<"\n">>, <<" ", "\t", "\n">>, <<>>,
      TextLine(<<NameA_mp4>>),
      <<" ">> \o JoinSp(<<NameB_mp4, FIGHTING>>) \o <<" ", "\t">>
            \o JoinSp(<<Minus1, Minus1, <<"1", "0">>, <<"2", "0">>>>) \o <<" ", "\n">> }

ParseLines == SixTokenLines \cup FiveTokenLines \cup SevenTokenLines \cup OtherLines

\* Point i of a person: never (0, 0), so that padding shows.
Points(n) == [i \in 1..n |-> <<100 + i, 200 + i>>]

Persons == { [ndim |-> d, pts |-> Points(n)] : d \in {2, 3}, n \in 0..MaxPoints }

RECURSIVE SeqsUpTo(_, _)
SeqsUpTo(S, n) ==
    IF n = 0 THEN {<<>>}
    ELSE LET shorter == SeqsUpTo(S, n - 1)
         IN  shorter \cup { Append(q, x) : q \in {t \in shorter : Len(t) = n - 1}, x \in S }

\* The answers of pose_model of the normaliser runs.
DetectorResults ==
    {NoResults, KeypointsNone} \cup { Keypoints(ps) : ps \in SeqsUpTo(Persons, MaxPersons) }

\* The answers of pose_model of the corpus runs.
CorpusResults ==
    { NoResults, KeypointsNone, Keypoints(<<>>),
      Keypoints(<<[ndim |-> 3, pts |-> Points(NumKeypoints)], [ndim |-> 3, pts |-> Points(1)]>>),
      Keypoints(<<[ndim |-> 2, pts |-> Points(1)]>>) }

----------------------------------------------------------------------------
(* Specifications *)

Init ==
    /\ pc = "reading"
    /\ exc = "none"
    /\ line = <<>>
    /\ annotations = <<>>
    /\ idx = 0
    /\ capOpen = FALSE
    /\ csvOpen = FALSE
    /\ frame_count = 0
    /\ results = NoResults
    /\ detections = NoDetections
    /\ files = <<>>
    /\ log = <<>>

ReadLine == ReadLineFrom(CorpusLines)

ProcessFrame ==
    /\ pc = "in_video"
    /\ frame_count < MaxFrames
    /\ \E r \in CorpusResults : FrameStep(r)

DetectorRaises ==
    /\ pc = "in_video"
    /\ frame_count < MaxFrames
    /\ DetectorRaisesStep

WriterRaises ==
    /\ pc = "in_video"
    /\ frame_count < MaxFrames
    /\ \E r \in CorpusResults : \E j \in 1..Len(detect_keypoints(r).value) :
          WriterRaisesStep(r, j)

Next ==
    \/ ReadLine
    \/ EndOfFile
    \/ OpenFailed
    \/ OpenVideo
    \/ CsvOpenRaises
    \/ ProcessFrame
    \/ DetectorRaises
    \/ WriterRaises
    \/ EndVideo
    \/ MainDone

\* A run of main.
Spec == Init /\ [][Next]_vars

ReadAnyLine == ReadLineFrom(ParseLines)

NextParse == ReadAnyLine \/ EndOfFile

\* read_annotations on the lines of ParseLines.
SpecParse == Init /\ [][NextParse]_vars

InitDetect ==
    /\ pc = "detect_call"
    /\ exc = "none"
    /\ line = <<>>
    /\ annotations = <<>>
    /\ idx = 0
    /\ capOpen = FALSE
    /\ csvOpen = FALSE
    /\ frame_count = 0
    /\ results \in DetectorResults
    /\ detections = NoDetections
    /\ files = <<>>
    /\ log = <<>>

\* One call detect_keypoints(frame) with pose_model answering results.
DetectCall ==
    /\ pc = "detect_call"
    /\ LET d == detect_keypoints(results)
       IN  IF d.raised
           THEN /\ pc' = "detect_raised"
                /\ exc' = "IndexError"
                /\ UNCHANGED detections
           ELSE /\ pc' = "detect_returned"
                /\ detections' = d.value
                /\ UNCHANGED exc
    /\ UNCHANGED <<line, annotations, idx, capOpen, csvOpen, frame_count,
                   results, files, log>>

NextDetect == DetectCall

\* detect_keypoints on the answers of DetectorResults.
SpecDetect == InitDetect /\ [][NextDetect]_vars

----------------------------------------------------------------------------
(* Properties *)

CurOut == OutputCsvPath(CurName)

\* The rows of a table after its header.
DataRows(path) == Tail(files[path])

LabelOf(row) == row[Len(row)]

CoordsOf(row) == SubSeq(row, 3, Len(row) - 1)

InSomeInterval(frame, intervals) ==
    \E k \in 1..Len(intervals) : intervals[k][1] <= frame /\ frame <= intervals[k][2]

\* C1: every row process_video has written for the video has label 1 exactly
\* when the event is "Fighting" and its frame lies in some interval, both
\* ends included; otherwise the label is 0.
C1_LabelIffFightingInInterval ==
    pc = "in_video" =>
        \A i \in 1..Len(DataRows(CurOut)) :
            LET row == DataRows(CurOut)[i]
            IN  /\ LabelOf(row) \in {0, 1}
                /\ LabelOf(row) = 1 <=>
                      /\ CurInfo.event = FIGHTING
                      /\ InSomeInterval(row[1], CurInfo.intervals)

\* C1 witness: a Fighting video with the interval (2, 2); frame 2, which is
\* its start and its end, is labelled 1 and frames 1 and 3 are labelled 0.
C1_Witness ==
    /\ pc = "in_video"
    /\ frame_count = 3
    /\ CurInfo.event = FIGHTING
    /\ CurInfo.intervals = <<<<2, 2>>>>
    /\ \E i, j, k \in 1..Len(DataRows(CurOut)) :
          /\ DataRows(CurOut)[i][1] = 1 /\ LabelOf(DataRows(CurOut)[i]) = 0
          /\ DataRows(CurOut)[j][1] = 2 /\ LabelOf(DataRows(CurOut)[j]) = 1
          /\ DataRows(CurOut)[k][1] = 3 /\ LabelOf(DataRows(CurOut)[k]) = 0

\* pose_model reported nobody: no results, no keypoints, or an empty list.
NoPersons(r) == ~r.raised /\ (r.nresults = 0 \/ ~r.hasKeypoints \/ Len(r.persons) = 0)

RowsOfFrame(path, f) == SelectSeq(DataRows(path), LAMBDA row : row[1] = f)

\* C2: when pose_model reports nobody for the frame, detect_keypoints returns
\* exactly one vector of 34 zeros, the frame gets exactly one row, of
\* person_id 0 and zero coordinates, and every frame decoded so far has a row
\* of person_id 0.
C2_NoPersonsOneZeroVector ==
    (pc = "in_video" /\ frame_count >= 1) =>
        /\ NoPersons(results) =>
              /\ Len(detections) = 1
              /\ Len(detections[1]) = VecLen
              /\ \A i \in 1..VecLen : detections[1][i] = 0
              /\ Len(RowsOfFrame(CurOut, frame_count)) = 1
              /\ RowsOfFrame(CurOut, frame_count)[1][2] = 0
              /\ CoordsOf(RowsOfFrame(CurOut, frame_count)[1]) = detections[1]
        /\ \A f \in 1..frame_count :
              \E i \in 1..Len(DataRows(CurOut)) :
                  DataRows(CurOut)[i][1] = f /\ DataRows(CurOut)[i][2] = 0

\* C2 witness: the second frame of a video had an empty keypoint list and
\* got its single all-zero row.
C2_Witness ==
    /\ pc = "in_video"
    /\ frame_count = 2
    /\ results = Keypoints(<<>>)
    /\ detections = <<Zeros(VecLen)>>
    /\ Len(RowsOfFrame(CurOut, 2)) = 1

\* The persons pose_model reported, when it reported any.
ReportedPersons(r) ==
    IF ~r.raised /\ r.nresults > 0 /\ r.hasKeypoints THEN r.persons ELSE <<>>

\* C3: for k >= 1 persons of at most 17 points each, detect_keypoints returns
\* k vectors in the order of the persons, each of 34 values: the person's
\* (x, y) pairs in order, then zeros.
C3_PersonsPaddedTo34 ==
    LET ps == ReportedPersons(results)
    IN  (/\ pc # "detect_call"
         /\ Len(ps) >= 1
         /\ \A i \in 1..Len(ps) : Len(ps[i].pts) <= NumKeypoints) =>
            /\ pc = "detect_returned"
            /\ Len(detections) = Len(ps)
            /\ \A i \in 1..Len(ps) :
                  /\ Len(detections[i]) = VecLen
                  /\ \A j \in 1..Len(ps[i].pts) :
                        /\ detections[i][2 * j - 1] = ps[i].pts[j][1]
                        /\ detections[i][2 * j] = ps[i].pts[j][2]
                  /\ \A j \in (2 * Len(ps[i].pts) + 1)..VecLen : detections[i][j] = 0

\* Two consecutive rows: the next person of the same frame, or person 0 of
\* the next frame.
RowsInOrder(rows) ==
    /\ rows # <<>> => (rows[1][1] = 1 /\ rows[1][2] = 0)
    /\ \A i \in 1..(Len(rows) - 1) :
          \/ rows[i + 1][1] = rows[i][1] /\ rows[i + 1][2] = rows[i][2] + 1
          \/ rows[i + 1][1] = rows[i][1] + 1 /\ rows[i + 1][2] = 0

\* The rows cover the frames 1..n, each with at least one row.
CoversFrames(rows, n) ==
    /\ n = 0 => rows = <<>>
    /\ n > 0 => (rows # <<>> /\ rows[Len(rows)][1] = n)

\* C4: the rows after the header run through the frames 1, 2, ..., N in
\* order with no gap, the rows of a frame are contiguous and carry the
\* person_id 0, 1, ..., m-1, where m is the number of vectors
\* detect_keypoints returned for the frame; this holds after every frame and
\* of the table a success report names.
C4_RowsOrdered ==
    /\ pc = "in_video" =>
          /\ RowsInOrder(DataRows(CurOut))
          /\ CoversFrames(DataRows(CurOut), frame_count)
          /\ frame_count >= 1 =>
                /\ Len(RowsOfFrame(CurOut, frame_count)) = Len(detections)
                /\ DataRows(CurOut)[Len(DataRows(CurOut))][2] = Len(detections) - 1
    /\ (log # <<>> /\ log[Len(log)].kind = "INFO") =>
          /\ RowsInOrder(DataRows(log[Len(log)].out))
          /\ CoversFrames(DataRows(log[Len(log)].out), log[Len(log)].frames)

\* C4 witness: a finished video of three frames whose table has a frame of
\* two rows (persons 0 and 1) between frames of one row.
C4_Witness ==
    /\ log # <<>>
    /\ log[Len(log)].kind = "INFO"
    /\ log[Len(log)].frames = 3
    /\ Len(RowsOfFrame(log[Len(log)].out, 1)) = 1
    /\ Len(RowsOfFrame(log[Len(log)].out, 2)) = 2
    /\ Len(RowsOfFrame(log[Len(log)].out, 3)) = 1

\* The line read last has exactly six tokens, the last four of them integers.
WellFormed(l) ==
    /\ Len(Split(l)) = 6
    /\ \A i \in 3..6 : ParseInt(Split(l)[i]).ok

FieldOf(l, i) == ParseInt(Split(l)[i]).val

\* C5: after a well-formed line, the entry of its video holds interval 1 iff
\* start1 and end1 are both not -1, interval 2 iff start2 and end2 are both
\* not -1, interval 1 first; -1 -1 10 20 gives [(10, 20)] and four -1 give [].
C5_IntervalsBySentinel ==
    (pc = "reading" /\ WellFormed(line)) =>
        LET ivs  == DictGet(annotations, Split(line)[1]).intervals
            inc1 == FieldOf(line, 3) # -1 /\ FieldOf(line, 4) # -1
            inc2 == FieldOf(line, 5) # -1 /\ FieldOf(line, 6) # -1
        IN  /\ Len(ivs) = (IF inc1 THEN 1 ELSE 0) + (IF inc2 THEN 1 ELSE 0)
            /\ inc1 => ivs[1] = <<FieldOf(line, 3), FieldOf(line, 4)>>
            /\ inc2 => ivs[Len(ivs)] = <<FieldOf(line, 5), FieldOf(line, 6)>>
            /\ line = TextLine(<<NameA_mp4, FIGHTING, Minus1, Minus1, <<"1", "0">>, <<"2", "0">>>>)
                  => ivs = <<<<10, 20>>>>
            /\ line = TextLine(<<NameA_mp4, FIGHTING, Minus1, Minus1, Minus1, Minus1>>)
                  => ivs = <<>>

\* C5 witness: the line "a.mp4 Fighting -1 -1 10 20" was read after a line
\* that gave the same video two intervals, and the entry now holds (10, 20)
\* only.
C5_Witness ==
    /\ pc = "reading"
    /\ line = TextLine(<<NameA_mp4, FIGHTING, Minus1, Minus1, <<"1", "0">>, <<"2", "0">>>>)
    /\ Len(annotations) = 2
    /\ annotations[2].key = NameA_mp4
    /\ annotations[2].val.intervals = <<<<10, 20>>>>
    /\ Len(annotations[1].val.intervals) = 2

\* A non-blank line whose token count is not 6 or one of whose four interval
\* fields is not an integer.
Malformed(l) ==
    /\ Strip(l) # <<>>
    /\ \/ Len(Split(l)) # 6
       \/ \E i \in 3..6 : ~ParseInt(Split(l)[i]).ok

\* C6: a malformed line makes read_annotations fail: it is neither skipped
\* nor accepted.
C6_MalformedLineFails ==
    Malformed(line) => (pc = "crashed" /\ exc \in {"IndexError", "ValueError"})

\* Some entry before the current position of main's loop.
Processed(i) == i \in 1..Len(annotations) /\ i < idx

Reported(kind, name) ==
    \E k \in 1..Len(log) : log[k].kind = kind /\ log[k].video = VideoPath(name)

\* C7: a source that does not open is reported and nothing is created or
\* written for it, main goes on to the next entry; every entry main has
\* passed was reported, as a failure to open or as a success, and a success is
\* printed over a closed table that holds all the frames of the video.
C7_OpenFailureIsolated ==
    /\ [](pc \in {"main_loop", "in_video", "done"} =>
            \A i \in 1..Len(annotations) : Processed(i) =>
                \/ Reported("ERROR", annotations[i].key)
                \/ Reported("INFO", annotations[i].key))
    /\ [][(log' # log /\ log'[Len(log')].kind = "ERROR") =>
            /\ files' = files
            /\ ~capOpen' /\ ~csvOpen'
            /\ pc' = "main_loop"
            /\ idx' = idx + 1]_vars
    /\ [][(log' # log /\ log'[Len(log')].kind = "INFO") =>
            /\ ~csvOpen'
            /\ log'[Len(log')].out \in DOMAIN files'
            /\ CoversFrames(Tail(files'[log'[Len(log')].out]), log'[Len(log')].frames)]_vars

\* C7 witness: a finished run of three videos whose second source did not
\* open; the first and the third have their success reports and tables.
C7_Witness ==
    /\ pc = "done"
    /\ Len(annotations) = 3
    /\ Reported("INFO", annotations[1].key)
    /\ Reported("ERROR", annotations[2].key)
    /\ Reported("INFO", annotations[3].key)
    /\ OutputCsvPath(annotations[1].key) \in DOMAIN files
    /\ OutputCsvPath(annotations[3].key) \in DOMAIN files
    /\ OutputCsvPath(annotations[1].key) # OutputCsvPath(annotations[3].key)
    /\ Len(DataRows(OutputCsvPath(annotations[1].key))) >= 2
    /\ Len(DataRows(OutputCsvPath(annotations[3].key))) >= 2

\* C8: whenever process_video has been left (main is between two videos, has
\* returned, or was ended by an exception of pose_model or of the csv writer
\* in the middle of a video), the frame source is released.
C8_SourceReleasedOnEveryExit ==
    (\/ pc \in {"main_loop", "done"}
     \/ pc = "crashed" /\ frame_count >= 1 /\ exc \in {"DetectorFailure", "OSError"})
        => ~capOpen

\* C9: when pose_model raises on frame n, the run ends with that exception:
\* nothing is caught, the table has no row of frame n or later, no success is
\* reported for the video, and no step follows.
C9_DetectorFailurePropagates ==
    results.raised =>
        /\ pc = "crashed"
        /\ exc = "DetectorFailure"
        /\ frame_count >= 1
        /\ \A i \in 1..Len(DataRows(CurOut)) : DataRows(CurOut)[i][1] < frame_count
        /\ ~Reported("INFO", CurName)
        /\ ~ENABLED Next

\* C9 witness: pose_model raised on the second frame; the rows of the first
\* frame are in the table.
C9_Witness ==
    /\ results.raised
    /\ pc = "crashed"
    /\ frame_count = 2
    /\ Len(RowsOfFrame(CurOut, 1)) = 2

IsPrefix(s, t) == Len(s) <= Len(t) /\ SubSeq(t, 1, Len(s)) = s

\* C10: a table written in the run is never replaced: from then on it only
\* grows, whichever video is processed next.
C10_TablesNeverReplaced ==
    [][\A p \in DOMAIN files : p \in DOMAIN files' /\ IsPrefix(files[p], files'[p])]_vars

=============================================================================
